---- MODULE Spec2Model ----
(***************************************************************************)
(* Model of the interactive review component of the code review frontend   *)
(* (InteractiveReview.jsx, second component, lines 276-479), the apply     *)
(* call of services/api.js and the FileReview list it renders.             *)
(*                                                                         *)
(* A file's content is held as its sequence of lines; the empty sequence   *)
(* is the empty string.  A suggestion's unified diff is held as its single *)
(* hunk: the old-side start line, the old-side lines (context and delete   *)
(* lines) and the new-side lines (context and add lines).                  *)
(*                                                                         *)
(* The diff rendering of the suggestion card (ReviewSuggestionCard.jsx,    *)
(* renderDiffWithContext) is modelled on the text of a diff: a sequence of *)
(* lines, each line a sequence of characters.                              *)
(*                                                                         *)
(* Three more components are modelled, each with a specification of its    *)
(* own: the step-by-step review (InteractiveReview.jsx, first component,   *)
(* lines 10-273), the full-screen review (RepoList.jsx, FullscreenReview)  *)
(* and the file diff viewer (RepoList.jsx, FileDiffViewer) with the diff   *)
(* parser, reconstructor and line grouper it rests on.  The review         *)
(* components each hold an approvedChanges list and hand it over on        *)
(* completion; one variable stands for it in whichever component is        *)
(* mounted.                                                                *)
(***************************************************************************)
EXTENDS Integers, Sequences, FiniteSets, TLC

\* Bound on the number of handleApprove calls made in one review session.
MaxApproves == 2

\* The value of `highlighted_lines?.[0]` when there are no highlighted lines.
Undefined == 0

Files == {"f1", "f2"}

\* original_content of each reviewed file, as delivered with the review results
OriginalContent(f) == IF f = "f1" THEN <<"a", "b", "b">> ELSE <<"x">>

Hunk(start, old, new) == [oldStart |-> start, oldLines |-> old, newLines |-> new]

Sugg(c, hl, d) == [comment |-> c, highlighted_lines |-> hl, diff |-> d]

\* Suggestions the reviewer can propose for a file.  Every diff is computed
\* against the file's original content.
Candidates(f) ==
    IF f = "f1"
    THEN << Sugg("D1",  <<1>>,    Hunk(1, <<"a">>, <<>>)),
            Sugg("R2",  <<2>>,    Hunk(2, <<"b">>, <<"B">>)),
            Sugg("R3",  <<3>>,    Hunk(3, <<"b">>, <<"C">>)),
            Sugg("W12", <<1, 2>>, Hunk(1, <<"a">>, <<"A">>)),
            Sugg("X12", <<1, 2>>, Hunk(1, <<"a", "b">>, <<"A">>)) >>
    ELSE << Sugg("RX",  <<1>>,    Hunk(1, <<"x">>, <<"X">>)),
            Sugg("DX",  <<1>>,    Hunk(1, <<"x">>, <<>>)),
            Sugg("KX",  <<1>>,    Hunk(1, <<"x">>, <<"x">>)) >>

\* The `results` arrays a review can deliver: two distinct suggestions for
\* f1, one for f2.
ResultsOf(f) ==
    LET C == Candidates(f) IN
    IF f = "f1"
    THEN { <<C[ij[1]], C[ij[2]]>> :
             ij \in { p \in (1..Len(C)) \X (1..Len(C)) : p[1] < p[2] } }
    ELSE { <<C[i]>> : i \in 1..Len(C) }

ReviewInputs ==
    { [f \in Files |-> [file |-> f, original_content |-> OriginalContent(f), results |-> r[f]]] :
        r \in { q \in [Files -> UNION { ResultsOf(f) : f \in Files }] :
                    \A f \in Files : q[f] \in ResultsOf(f) } }

VARIABLES
    reviewResults,        \* prop: file -> [file, original_content, results]
    approvedChanges,      \* useState([])
    rejectedSuggestions,  \* useState(new Set()) of suggestion objects <<file, index>>
    loadingDiff,          \* useState(new Set()) of suggestion ids
    fileContents,         \* useState: file -> cumulative content
    calls,                \* the handleApprove invocations, in the order they were started,
                          \* each with the values its closure captured
    alertMsg,             \* the last alert() shown
    completed,            \* the arguments of onComplete, once invoked
    lines,                \* ReviewSuggestionCard: suggestion.diff.split('\n')
    idx,                  \* index of the line lines.map is at
    oldLineNum,           \* let oldLineNum
    newLineNum,           \* let newLineNum
    headerParsed,         \* let headerParsed
    rows,                 \* the rows rendered so far
    validFiles,           \* step-by-step review: the files with results
    currentFileIndex,     \* useState(0)
    currentSuggestionIndex, \* useState(0)
    showBranchModal,      \* useState(false)
    reviewData,           \* FullscreenReview: the review read from sessionStorage
    rejectedIssues,       \* useState(new Set()) of globalIndex values
    issues,               \* FileDiffViewer: the issues prop
    parsedDiff,           \* useMemo: the parsed merged diff
    processedLines,       \* useMemo: the grouped lines
    expandedCollapsed     \* useState(new Set()) of indexes of processedLines

\* the state of the interactive review
rvars == <<reviewResults, approvedChanges, rejectedSuggestions, loadingDiff,
           fileContents, calls, alertMsg, completed>>

\* the state of a suggestion card rendering its diff
pvars == <<lines, idx, oldLineNum, newLineNum, headerParsed, rows>>

\* the state of the step-by-step review, next to approvedChanges
svars == <<validFiles, currentFileIndex, currentSuggestionIndex, showBranchModal>>

\* the state of the full-screen review, next to approvedChanges
fvars == <<reviewData, rejectedIssues>>

\* the state of a file diff viewer
vvars == <<issues, parsedDiff, processedLines, expandedCollapsed>>

\* what belongs to the interactive review alone
rown == <<reviewResults, rejectedSuggestions, loadingDiff, fileContents, calls>>

vars == <<reviewResults, approvedChanges, rejectedSuggestions, loadingDiff,
          fileContents, calls, alertMsg, completed,
          lines, idx, oldLineNum, newLineNum, headerParsed, rows,
          validFiles, currentFileIndex, currentSuggestionIndex, showBranchModal,
          reviewData, rejectedIssues,
          issues, parsedDiff, processedLines, expandedCollapsed>>

NoAlert == "none"
AlertApplyFailed == "Failed to apply suggestion"
AlertNoChanges == "No changes approved"
AlertInvalid == "approved change(s) are missing required data"
NotCompleted == [invoked |-> FALSE]
BranchName == "ai-review"

----
\* Helpers

First(hl) == IF Len(hl) = 0 THEN Undefined ELSE hl[1]
Last(hl) == IF Len(hl) = 0 THEN Undefined ELSE hl[Len(hl)]

SuggestionOf(f, i) == reviewResults[f].results[i]

AllSuggestions == { <<f, i>> : f \in Files, i \in 1..2 } \cap
                  { fi \in Files \X (1..2) : fi[2] <= Len(reviewResults[fi[1]].results) }

SuggestionId(f, s) == <<f, First(s.highlighted_lines)>>

RECURSIVE SumLen(_)
SumLen(S) == IF S = {} THEN 0
             ELSE LET f == CHOOSE x \in S : TRUE
                  IN Len(reviewResults[f].results) + SumLen(S \ {f})

totalSuggestions == SumLen(Files)

handledCount == Len(approvedChanges) + Cardinality(rejectedSuggestions)

\* `approvedChanges.some(change => change.file === file && change.line_start === s.highlighted_lines?.[0])`
isApproved(f, s) ==
    \E n \in 1..Len(approvedChanges) :
        /\ approvedChanges[n].file = f
        /\ approvedChanges[n].line_start = First(s.highlighted_lines)

\* the activeSuggestions filter
IsActive(f, i) ==
    /\ <<f, i>> \notin rejectedSuggestions
    /\ ~isApproved(f, SuggestionOf(f, i))

\* FileReview renders a SuggestionBlock (Accept / Dismiss) after the line the
\* suggestion starts at, for the lines of the content it is given.
HasControls(f, i) ==
    /\ IsActive(f, i)
    /\ First(SuggestionOf(f, i).highlighted_lines) # Undefined
    /\ First(SuggestionOf(f, i).highlighted_lines) <= Len(fileContents[f])

PanelShown == handledCount = totalSuggestions /\ totalSuggestions > 0

Awaiting == { k \in 1..Len(calls) : calls[k].pc = "await" }

\* the calls whose applySuggestion resolved; a call's rank is its place
\* among them in the order of completion
Resolved == { k \in 1..Len(calls) : calls[k].pc = "ok" }

----
\* The patch applier behind POST /api/reviews/apply-suggestion

\* the old-side lines of the hunk are found at their recorded line numbers
Located(base, d) ==
    /\ d.oldStart >= 1
    /\ d.oldStart + Len(d.oldLines) - 1 <= Len(base)
    /\ SubSeq(base, d.oldStart, d.oldStart + Len(d.oldLines) - 1) = d.oldLines

StaleBase(base, d) == ~Located(base, d)

ApplyHunk(base, d) ==
    SubSeq(base, 1, d.oldStart - 1) \o d.newLines \o
    SubSeq(base, d.oldStart + Len(d.oldLines), Len(base))

\* the request body built by applySuggestion
ApplyRequest(f, s, currentContent) ==
    [path |-> f,
     suggestion |-> s.comment,
     line_start |-> IF First(s.highlighted_lines) = Undefined THEN 1 ELSE First(s.highlighted_lines),
     line_end |-> Last(s.highlighted_lines),
     diff |-> s.diff,
     current_content |-> currentContent]

\* the diff text of two equal contents: the empty string
EmptyDiff == Hunk(0, <<>>, <<>>)

\* number of leading lines two contents have in common
RECURSIVE CommonPrefix(_, _)
CommonPrefix(a, b) ==
    IF Len(a) = 0 \/ Len(b) = 0 \/ Head(a) # Head(b) THEN 0
    ELSE 1 + CommonPrefix(Tail(a), Tail(b))

\* number of trailing lines two contents have in common
RECURSIVE CommonSuffix(_, _)
CommonSuffix(a, b) ==
    IF Len(a) = 0 \/ Len(b) = 0 \/ a[Len(a)] # b[Len(b)] THEN 0
    ELSE 1 + CommonSuffix(SubSeq(a, 1, Len(a) - 1), SubSeq(b, 1, Len(b) - 1))

\* the diff from base to new: the lines between the common head and tail
DiffOf(base, new) ==
    IF base = new THEN EmptyDiff
    ELSE LET p == CommonPrefix(base, new)
             q == CommonSuffix(SubSeq(base, p + 1, Len(base)), SubSeq(new, p + 1, Len(new)))
         IN Hunk(p + 1, SubSeq(base, p + 1, Len(base) - q), SubSeq(new, p + 1, Len(new) - q))

\* the response body: the modified content and the diff from base to it
ApplyResult(req) ==
    LET modified == ApplyHunk(req.current_content, req.diff) IN
    [modified_code |-> modified,
     diff |-> DiffOf(req.current_content, modified)]

----
\* the empty string split at line breaks: one empty line
EmptyText == << <<>> >>

\* renderDiffWithContext entered: the counters before the first line
RenderStart ==
    /\ idx = 1
    /\ oldLineNum = 0
    /\ newLineNum = 0
    /\ headerParsed = FALSE
    /\ rows = <<>>

\* no suggestion card on the page
NoCard == lines = EmptyText /\ RenderStart

\* a value not computed yet
NotComputed == [computed |-> FALSE]

\* no step-by-step review mounted
NoStepReview ==
    /\ validFiles = <<>>
    /\ currentFileIndex = 0
    /\ currentSuggestionIndex = 0
    /\ showBranchModal = FALSE

\* no full-screen review open
NoFullscreen == reviewData = <<>> /\ rejectedIssues = {}

\* no file diff viewer on the page
NoViewer ==
    /\ issues = <<>>
    /\ parsedDiff = NotComputed
    /\ processedLines = NotComputed
    /\ expandedCollapsed = {}

\* what the interactive review leaves alone
others == <<pvars, svars, fvars, vvars>>

Init ==
    /\ NoCard
    /\ NoStepReview
    /\ NoFullscreen
    /\ NoViewer
    /\ reviewResults \in ReviewInputs
    /\ approvedChanges = <<>>
    /\ rejectedSuggestions = {}
    /\ loadingDiff = {}
    /\ fileContents = [f \in Files |-> reviewResults[f].original_content]
    /\ calls = <<>>
    /\ alertMsg = NoAlert
    /\ completed = NotCompleted

\* the approve that sends the content the review started with
CurrentContent_Original(f) == reviewResults[f].original_content

\* `const currentContent = fileContents[fileRef.file]`
CurrentContent(f) == fileContents[f]

\* handleApprove up to the await: the Accept button of an active suggestion
HandleApprove(f, i) ==
    /\ ~completed.invoked
    /\ HasControls(f, i)
    /\ Len(calls) < MaxApproves
    /\ LET s == SuggestionOf(f, i) IN
        /\ loadingDiff' = loadingDiff \cup {SuggestionId(f, s)}
        /\ calls' = Append(calls,
                [file |-> f, index |-> i, pc |-> "await", rank |-> 0,
                 displayed |-> fileContents[f],
                 request |-> ApplyRequest(f, s, CurrentContent(f)),
                 approvedChanges |-> approvedChanges])
    /\ UNCHANGED <<reviewResults, approvedChanges, rejectedSuggestions,
                   fileContents, alertMsg, completed>>

\* the change object stored for an approved suggestion
ApprovedChange(call, result) ==
    LET s == SuggestionOf(call.file, call.index) IN
    [file |-> call.file,
     original_content |-> call.request.current_content,
     modified_content |-> result.modified_code,
     suggestion |-> s.comment,
     diff |-> IF result.diff # EmptyDiff THEN result.diff ELSE s.diff,
     line_start |-> First(s.highlighted_lines),
     line_end |-> Last(s.highlighted_lines)]

\* handleApprove after the await, applySuggestion resolved
ApplyResolved(k) ==
    /\ ~completed.invoked
    /\ k \in Awaiting
    /\ ~StaleBase(calls[k].request.current_content, calls[k].request.diff)
    /\ LET call == calls[k]
           result == ApplyResult(call.request)
       IN
        /\ fileContents' = [fileContents EXCEPT ![call.file] = result.modified_code]
        /\ approvedChanges' = Append(call.approvedChanges, ApprovedChange(call, result))
        /\ loadingDiff' = loadingDiff \ {SuggestionId(call.file, SuggestionOf(call.file, call.index))}
        /\ calls' = [calls EXCEPT ![k].pc = "ok", ![k].rank = Cardinality(Resolved) + 1]
    /\ UNCHANGED <<reviewResults, rejectedSuggestions, alertMsg, completed>>

\* a catch block that clears the content of the file
ApplyRejected_ClearsContent(k) ==
    /\ ~completed.invoked
    /\ k \in Awaiting
    /\ LET call == calls[k] IN
        /\ alertMsg' = AlertApplyFailed
        /\ fileContents' = [fileContents EXCEPT ![call.file] = <<>>]
        /\ loadingDiff' = loadingDiff \ {SuggestionId(call.file, SuggestionOf(call.file, call.index))}
        /\ calls' = [calls EXCEPT ![k].pc = "failed"]
    /\ UNCHANGED <<reviewResults, approvedChanges, rejectedSuggestions, completed>>

\* handleApprove after the await, applySuggestion threw (non-ok response,
\* network error, time-out): catch and finally
ApplyRejected(k) ==
    /\ ~completed.invoked
    /\ k \in Awaiting
    /\ LET call == calls[k] IN
        /\ alertMsg' = AlertApplyFailed
        /\ loadingDiff' = loadingDiff \ {SuggestionId(call.file, SuggestionOf(call.file, call.index))}
        /\ calls' = [calls EXCEPT ![k].pc = "failed"]
    /\ UNCHANGED <<reviewResults, approvedChanges, rejectedSuggestions,
                   fileContents, completed>>

\* a reject that builds the set from the rejected suggestion alone
HandleReject_ReplacesSet(f, i) ==
    /\ ~completed.invoked
    /\ HasControls(f, i)
    /\ rejectedSuggestions' = {<<f, i>>}
    /\ UNCHANGED <<reviewResults, approvedChanges, loadingDiff, fileContents,
                   calls, alertMsg, completed>>

\* a reject that puts the file back to its original content
HandleReject_Reverts(f, i) ==
    /\ ~completed.invoked
    /\ HasControls(f, i)
    /\ rejectedSuggestions' = rejectedSuggestions \cup {<<f, i>>}
    /\ fileContents' = [fileContents EXCEPT ![f] = reviewResults[f].original_content]
    /\ UNCHANGED <<reviewResults, approvedChanges, loadingDiff,
                   calls, alertMsg, completed>>

\* the Dismiss button of an active suggestion
HandleReject(f, i) ==
    /\ ~completed.invoked
    /\ HasControls(f, i)
    /\ rejectedSuggestions' = rejectedSuggestions \cup {<<f, i>>}
    /\ UNCHANGED <<reviewResults, approvedChanges, loadingDiff, fileContents,
                   calls, alertMsg, completed>>

\* `!change.file || !change.modified_content`
InvalidChange(change) == change.file = "" \/ change.modified_content = <<>>

\* a finalize without the check for an empty approvedChanges
HandleFinalize_NoEmptyCheck ==
    /\ ~completed.invoked
    /\ PanelShown
    /\ IF \E n \in 1..Len(approvedChanges) : InvalidChange(approvedChanges[n])
       THEN alertMsg' = AlertInvalid /\ completed' = completed
       ELSE /\ completed' = [invoked |-> TRUE, changes |-> approvedChanges, branchName |-> BranchName]
            /\ alertMsg' = alertMsg
    /\ UNCHANGED <<reviewResults, approvedChanges, rejectedSuggestions,
                   loadingDiff, fileContents, calls>>

\* the Create PR button of the final panel
HandleFinalize ==
    /\ ~completed.invoked
    /\ PanelShown
    /\ IF Len(approvedChanges) = 0
       THEN alertMsg' = AlertNoChanges /\ completed' = completed
       ELSE IF \E n \in 1..Len(approvedChanges) : InvalidChange(approvedChanges[n])
       THEN alertMsg' = AlertInvalid /\ completed' = completed
       ELSE /\ completed' = [invoked |-> TRUE, changes |-> approvedChanges, branchName |-> BranchName]
            /\ alertMsg' = alertMsg
    /\ UNCHANGED <<reviewResults, approvedChanges, rejectedSuggestions,
                   loadingDiff, fileContents, calls>>

Next ==
    \/ \E f \in Files, i \in 1..2 :
            i <= Len(reviewResults[f].results) /\ HandleApprove(f, i) /\ UNCHANGED others
    \/ \E k \in 1..MaxApproves : ApplyResolved(k) /\ UNCHANGED others
    \/ \E k \in 1..MaxApproves : ApplyRejected(k) /\ UNCHANGED others
    \/ \E f \in Files, i \in 1..2 :
            i <= Len(reviewResults[f].results) /\ HandleReject(f, i) /\ UNCHANGED others
    \/ HandleFinalize /\ UNCHANGED others

Spec == Init /\ [][Next]_vars

----
\* Notions the properties are stated in

\* the suggestion has an entry of its own in approvedChanges
Recorded(f, i) ==
    \E n \in 1..Len(approvedChanges) :
        /\ approvedChanges[n].file = f
        /\ approvedChanges[n].suggestion = SuggestionOf(f, i).comment

\* neither approved nor rejected
Pending(f, i) == <<f, i>> \notin rejectedSuggestions /\ ~Recorded(f, i)

\* the line ranges lo1..hi1 and lo2..hi2 have a line in common
RangesIntersect(lo1, hi1, lo2, hi2) == lo1 <= hi2 /\ lo2 <= hi1

\* both hunks applied to the content they were computed against, as one patch
CombinedPatch(base, d1, d2) ==
    IF d1.oldStart >= d2.oldStart
    THEN ApplyHunk(ApplyHunk(base, d1), d2)
    ELSE ApplyHunk(ApplyHunk(base, d2), d1)

\* call k has just been started by this step
Started(k) == Len(calls) = k - 1 /\ Len(calls') = k

----
\* C1: while an apply request for a suggestion of a file awaits its response,
\* no second approve request for a suggestion of the same file is in flight.
C1_SameFileSerialized ==
    \A j \in Awaiting, k \in Awaiting : j # k => calls[j].file # calls[k].file

\* C2: when the only two approvals of the session were for different files,
\* were in flight at the same time and both succeeded, approvedChanges holds
\* both changes, each file has the content returned for it and neither
\* suggestion is displayed as active.
C2_IndependentFiles ==
    ( /\ Len(calls) = 2
      /\ calls[1].pc = "ok" /\ calls[2].pc = "ok"
      /\ calls[1].file # calls[2].file
      /\ calls[2].approvedChanges = <<>> )
    => \A k \in 1..2 :
        /\ Recorded(calls[k].file, calls[k].index)
        /\ fileContents[calls[k].file] = ApplyResult(calls[k].request).modified_code
        /\ ~IsActive(calls[k].file, calls[k].index)

\* C3: when A and then B of the same file, with disjoint line ranges, were
\* approved one after the other, B's request carried A's result and the
\* file's content is A and B applied as one patch, not B applied to the
\* original content.
C3_CumulativeApplication ==
    ( /\ Len(calls) = 2
      /\ calls[1].pc = "ok" /\ calls[2].pc = "ok"
      /\ calls[1].file = calls[2].file
      /\ calls[2].approvedChanges # <<>>
      /\ ~RangesIntersect(calls[1].request.line_start, calls[1].request.line_end,
                          calls[2].request.line_start, calls[2].request.line_end) )
    => LET f == calls[1].file
           orig == reviewResults[f].original_content
       IN
        /\ calls[2].request.current_content = ApplyResult(calls[1].request).modified_code
        /\ fileContents[f] = CombinedPatch(orig, calls[1].request.diff, calls[2].request.diff)
        /\ fileContents[f] # ApplyHunk(orig, calls[2].request.diff)

\* C4: no suggestion is both recorded in approvedChanges and a member of
\* rejectedSuggestions.
C4_TerminalStates ==
    \A fi \in rejectedSuggestions : ~Recorded(fi[1], fi[2])

C6_NoFinalizeWhilePending ==
    (\E fi \in AllSuggestions : Pending(fi[1], fi[2]))
    => ~PanelShown /\ ~completed.invoked

\* C7: finalize with no approved change alerts that nothing was approved,
\* does not invoke onComplete and leaves the review state as it was.
C7_FinalizeNothingToPublish ==
    [][ (HandleFinalize /\ Len(approvedChanges) = 0)
        => /\ alertMsg' = AlertNoChanges
           /\ ~completed'.invoked
           /\ UNCHANGED <<approvedChanges, rejectedSuggestions, fileContents,
                          loadingDiff, calls, completed>> ]_vars

C7_Witness ==
    /\ alertMsg = AlertNoChanges
    /\ Len(approvedChanges) = 0
    /\ PanelShown
    /\ ~completed.invoked

\* C8: an approve started when an already approved change of the same file
\* has a line range intersecting the suggestion's does not succeed.
C8_ConflictDetection ==
    \A k \in 1..Len(calls) :
        (\E n \in 1..Len(calls[k].approvedChanges) :
            /\ calls[k].approvedChanges[n].file = calls[k].file
            /\ RangesIntersect(calls[k].approvedChanges[n].line_start,
                               calls[k].approvedChanges[n].line_end,
                               calls[k].request.line_start,
                               calls[k].request.line_end))
        => calls[k].pc # "ok"

C10_OnlyWriter ==
    /\ \A f \in Files : fileContents[f] = reviewResults[f].original_content
    /\ [][ \A f \in Files :
             fileContents'[f] # fileContents[f]
             => \E k \in Awaiting : calls[k].file = f /\ calls'[k].pc = "ok" ]_vars

C10_Witness ==
    \E f \in Files :
        /\ fileContents[f] # reviewResults[f].original_content
        /\ rejectedSuggestions # {}
        /\ \E k \in 1..Len(calls) : calls[k].pc = "failed"

----
\* the entries of a list of changes that belong to suggestion i of file f
EntriesOf(changes, f, i) ==
    { n \in 1..Len(changes) :
        changes[n].file = f /\ changes[n].suggestion = SuggestionOf(f, i).comment }

\* the suggestions with an approval that succeeded
Succeeded == { <<calls[k].file, calls[k].index>> : k \in Resolved }

\* C11: the list given to onComplete has exactly one entry for each
\* suggestion whose approval succeeded and no other entry, and the entries
\* are in the order in which the approvals completed.
C11_FinalListComplete ==
    completed.invoked =>
        /\ \A fi \in Succeeded : Cardinality(EntriesOf(completed.changes, fi[1], fi[2])) = 1
        /\ Len(completed.changes) = Cardinality(Succeeded)
        /\ \A j \in Resolved, k \in Resolved :
             calls[j].rank < calls[k].rank =>
                \A m \in EntriesOf(completed.changes, calls[j].file, calls[j].index),
                   n \in EntriesOf(completed.changes, calls[k].file, calls[k].index) : m <= n

\* C12: finalize invoked when no suggestion is pending and an approval has
\* succeeded invokes onComplete with approvedChanges and the branch name.
C12_FinalizeSucceeds ==
    [][ ( /\ HandleFinalize
          /\ \A fi \in AllSuggestions : ~Pending(fi[1], fi[2])
          /\ Resolved # {} )
        => /\ completed'.invoked
           /\ completed'.changes = approvedChanges
           /\ completed'.branchName = BranchName ]_vars

\* C13: handledCount is the number of suggestions that are not pending, so
\* it is at most totalSuggestions and equals it exactly when none is pending.
C13_ProgressCount ==
    /\ handledCount = Cardinality({ fi \in AllSuggestions : ~Pending(fi[1], fi[2]) })
    /\ handledCount <= totalSuggestions
    /\ (handledCount = totalSuggestions) <=> (\A fi \in AllSuggestions : ~Pending(fi[1], fi[2]))

\* C14: a reject makes the suggestion rejected and leaves fileContents,
\* approvedChanges and the state of every other suggestion as they were.
C14_RejectFrame ==
    [][ \A f \in Files, i \in 1..2 :
          (i <= Len(reviewResults[f].results) /\ HandleReject(f, i))
          => /\ (<<f, i>> \in rejectedSuggestions)'
             /\ UNCHANGED <<fileContents, approvedChanges>>
             /\ \A fi \in AllSuggestions \ {<<f, i>>} :
                  /\ (fi \in rejectedSuggestions) <=> (fi \in rejectedSuggestions)'
                  /\ Recorded(fi[1], fi[2]) <=> Recorded(fi[1], fi[2])'
                  /\ IsActive(fi[1], fi[2]) <=> IsActive(fi[1], fi[2])' ]_vars

C14_Witness ==
    /\ Cardinality(rejectedSuggestions) = 2
    /\ Len(approvedChanges) > 0
    /\ \E fi \in AllSuggestions : Pending(fi[1], fi[2])

\* C15: when one of two suggestions of a file that start at the same line
\* has been approved, the other one, neither approved nor rejected itself,
\* is still displayed as active.
C15_SeparateIdentity ==
    \A f \in Files, i \in 1..2, j \in 1..2 :
        ( /\ i <= Len(reviewResults[f].results) /\ j <= Len(reviewResults[f].results)
          /\ i # j
          /\ First(SuggestionOf(f, i).highlighted_lines) = First(SuggestionOf(f, j).highlighted_lines)
          /\ Recorded(f, i)
          /\ Pending(f, j) )
        => IsActive(f, j)

\* Every response arrives: a started applySuggestion call resolves or throws
SpecLive ==
    Spec /\ \A k \in 1..MaxApproves : WF_rvars(ApplyResolved(k) \/ ApplyRejected(k))

\* the approve request k completes in this step
Completes(k) == k \in Awaiting /\ k \notin Awaiting'

\* C16: no approval stays in flight: whenever no request is outstanding
\* loadingDiff is empty; the step that completes a request removes its marker
\* and leaves its suggestion approved when it succeeded and pending when it
\* failed; and every started request completes (while the review is open).
C16_NoAmbiguousInFlight ==
    /\ [](Awaiting = {} => loadingDiff = {})
    /\ [][\A k \in 1..MaxApproves :
            Completes(k) =>
                LET f == calls[k].file
                    i == calls[k].index
                IN /\ SuggestionId(f, SuggestionOf(f, i)) \notin loadingDiff'
                   /\ calls'[k].pc = "ok" => Recorded(f, i)'
                   /\ calls'[k].pc = "failed" => Pending(f, i)']_vars
    /\ \A k \in 1..MaxApproves :
            (k \in Awaiting) ~> (k \notin Awaiting \/ completed.invoked)

\* C17: the diff of every recorded change is the diff from the content the
\* approval was applied to, to the content that resulted.
C17_RecordedDiffComputed ==
    \A n \in 1..Len(approvedChanges) :
        approvedChanges[n].diff =
            DiffOf(approvedChanges[n].original_content, approvedChanges[n].modified_content)

----
\* The suggestion card: renderDiffWithContext of ReviewSuggestionCard.jsx

\* number of lines of the longest diff text rendered
MaxDiffLines == 4

\* `let oldNum = null`
Null == -1

\* the lines diff texts are made of
FileOldLine == <<"-", "-", "-", " ", "a">>
FileNewLine == <<"+", "+", "+", " ", "b">>
Hunk1Line == <<"@", "@", " ", "-", "3", ",", "2", " ", "+", "4", ",", "2", " ", "@", "@">>
Hunk2Line == <<"@", "@", " ", "-", "1", "2", " ", "+", "1", "5", " ", "@", "@">>
BadHunkLine == <<"@", "@", " ", "x">>
AddLine == <<"+", "b">>
DeleteLine == <<"-", "a">>
ContextLine == <<" ", "c">>
EmptyLine == <<>>

DiffLineKinds ==
    {FileOldLine, FileNewLine, Hunk1Line, Hunk2Line, BadHunkLine,
     AddLine, DeleteLine, ContextLine, EmptyLine}

\* the texts `suggestion.diff` can hold, split at line breaks
DiffTexts == UNION { [1..n -> DiffLineKinds] : n \in 1..MaxDiffLines }

\* line.startsWith(prefix)
StartsWith(line, prefix) ==
    Len(line) >= Len(prefix) /\ SubSeq(line, 1, Len(prefix)) = prefix

\* the literal lit stands in line at position p
LiteralAt(line, p, lit) ==
    p + Len(lit) - 1 <= Len(line) /\ SubSeq(line, p, p + Len(lit) - 1) = lit

\* the decimal digits, in the order of their values
Digits == <<"0", "1", "2", "3", "4", "5", "6", "7", "8", "9">>

IsDigit(c) == \E d \in 1..Len(Digits) : Digits[d] = c

DigitValue(c) == (CHOOSE d \in 1..Len(Digits) : Digits[d] = c) - 1

\* \d* : the number of digits of line from position p on
RECURSIVE DigitRun(_, _)
DigitRun(line, p) ==
    IF p <= Len(line) /\ IsDigit(line[p]) THEN 1 + DigitRun(line, p + 1) ELSE 0

\* parseInt(digits, 10)
RECURSIVE ParseInt(_)
ParseInt(digits) ==
    IF digits = <<>> THEN 0
    ELSE 10 * ParseInt(SubSeq(digits, 1, Len(digits) - 1)) + DigitValue(digits[Len(digits)])

\* ,? : the position after an optional comma at p
SkipComma(line, p) == IF LiteralAt(line, p, <<",">>) THEN p + 1 ELSE p

\* the match of /@@ -(\d+),?\d* \+(\d+),?\d* @@/ that starts at position p
HeaderMatchAt(line, p) ==
    LET o  == p + 4
        on == DigitRun(line, o)
        oc == SkipComma(line, o + on)
        oe == oc + DigitRun(line, oc)
        n  == oe + 2
        nn == DigitRun(line, n)
        nc == SkipComma(line, n + nn)
        ne == nc + DigitRun(line, nc)
    IN [matched |-> /\ LiteralAt(line, p, <<"@", "@", " ", "-">>)
                    /\ on >= 1
                    /\ LiteralAt(line, oe, <<" ", "+">>)
                    /\ nn >= 1
                    /\ LiteralAt(line, ne, <<" ", "@", "@">>),
        oldStart |-> ParseInt(SubSeq(line, o, o + on - 1)),
        newStart |-> ParseInt(SubSeq(line, n, n + nn - 1))]

\* headerLine.match(...) finds a match
HeaderMatches(headerLine) ==
    \E p \in 1..Len(headerLine) : HeaderMatchAt(headerLine, p).matched

parseDiffHeader(headerLine) ==
    IF HeaderMatches(headerLine)
    THEN LET p == CHOOSE q \in 1..Len(headerLine) :
                    /\ HeaderMatchAt(headerLine, q).matched
                    /\ \A r \in 1..(q - 1) : ~HeaderMatchAt(headerLine, r).matched
             m == HeaderMatchAt(headerLine, p)
         IN [oldStart |-> m.oldStart, newStart |-> m.newStart]
    ELSE [oldStart |-> 1, newStart |-> 1]

\* the branch of the if / else-if chain a line takes
LineType(line) ==
    IF StartsWith(line, <<"-", "-", "-">>) \/ StartsWith(line, <<"+", "+", "+">>) THEN "file"
    ELSE IF StartsWith(line, <<"@", "@">>) THEN "hunk"
    ELSE IF StartsWith(line, <<"+">>) THEN "add"
    ELSE IF StartsWith(line, <<"-">>) THEN "delete"
    ELSE IF StartsWith(line, <<" ">>) THEN "context"
    ELSE "other"

\* `if (!suggestion.diff) return null`: the empty text renders no line
Rendered == IF lines = EmptyText THEN <<>> ELSE lines

\* lines.map is at a line that takes the branch type
AtLine(type) == idx <= Len(Rendered) /\ LineType(Rendered[idx]) = type

\* the row rendered for a line
Row(type, line, oldNum, newNum, showLineNumber) ==
    [type |-> type, line |-> line, oldNum |-> oldNum, newNum |-> newNum,
     showLineNumber |-> showLineNumber]

\* the row is returned and map moves on
Emit(row) ==
    /\ rows' = Append(rows, row)
    /\ idx' = idx + 1
    /\ UNCHANGED <<lines, rvars, svars, fvars, vvars>>

\* a line starting with --- or +++
RenderFileHeader ==
    /\ AtLine("file")
    /\ Emit(Row("file", lines[idx], Null, Null, FALSE))
    /\ UNCHANGED <<oldLineNum, newLineNum, headerParsed>>

\* a line starting with @@
RenderHunkHeader ==
    /\ AtLine("hunk")
    /\ Emit(Row("hunk", lines[idx], Null, Null, FALSE))
    /\ IF ~headerParsed
       THEN /\ oldLineNum' = parseDiffHeader(lines[idx]).oldStart
            /\ newLineNum' = parseDiffHeader(lines[idx]).newStart
            /\ headerParsed' = TRUE
       ELSE UNCHANGED <<oldLineNum, newLineNum, headerParsed>>

\* a line starting with +
RenderAdded ==
    /\ AtLine("add")
    /\ Emit(Row("add", lines[idx], Null, newLineNum, TRUE))
    /\ newLineNum' = newLineNum + 1
    /\ UNCHANGED <<oldLineNum, headerParsed>>

\* a line starting with -
RenderDeleted ==
    /\ AtLine("delete")
    /\ Emit(Row("delete", lines[idx], oldLineNum, Null, TRUE))
    /\ oldLineNum' = oldLineNum + 1
    /\ UNCHANGED <<newLineNum, headerParsed>>

\* a context branch that advances the old counter only
RenderContext_OldOnly ==
    /\ AtLine("context")
    /\ Emit(Row("context", lines[idx], oldLineNum, newLineNum, TRUE))
    /\ oldLineNum' = oldLineNum + 1
    /\ UNCHANGED <<newLineNum, headerParsed>>

\* a line starting with a space
RenderContext ==
    /\ AtLine("context")
    /\ Emit(Row("context", lines[idx], oldLineNum, newLineNum, TRUE))
    /\ oldLineNum' = oldLineNum + 1
    /\ newLineNum' = newLineNum + 1
    /\ UNCHANGED headerParsed

\* any other line, the empty line included
RenderOther ==
    /\ AtLine("other")
    /\ Emit(Row("other", lines[idx], Null, Null, FALSE))
    /\ UNCHANGED <<oldLineNum, newLineNum, headerParsed>>

\* a page that shows a suggestion card and no interactive review
NoReview ==
    /\ reviewResults = [f \in Files |->
            [file |-> f, original_content |-> OriginalContent(f), results |-> <<>>]]
    /\ approvedChanges = <<>>
    /\ rejectedSuggestions = {}
    /\ loadingDiff = {}
    /\ fileContents = [f \in Files |-> OriginalContent(f)]
    /\ calls = <<>>
    /\ alertMsg = NoAlert
    /\ completed = NotCompleted

InitCard ==
    /\ NoReview
    /\ NoStepReview
    /\ NoFullscreen
    /\ NoViewer
    /\ lines \in DiffTexts
    /\ RenderStart

NextCard ==
    \/ RenderFileHeader
    \/ RenderHunkHeader
    \/ RenderAdded
    \/ RenderDeleted
    \/ RenderContext
    \/ RenderOther

SpecCard == InitCard /\ [][NextCard]_vars

\* all lines of the text are rendered
RenderDone == idx > Len(Rendered)

\* rows m and n lie in one hunk: no hunk header row from m to n
SameHunk(m, n) == \A j \in m..n : rows[j].type # "hunk"

\* row n is the first row after row m that has an old number
NextOld(m, n) ==
    /\ m < n
    /\ rows[n].oldNum # Null
    /\ \A j \in (m + 1)..(n - 1) : rows[j].oldNum = Null

\* row n is the first row after row m that has a new number
NextNew(m, n) ==
    /\ m < n
    /\ rows[n].newNum # Null
    /\ \A j \in (m + 1)..(n - 1) : rows[j].newNum = Null

\* C18: an add row has a new number only, a delete row an old number only,
\* a context row both; within a hunk the old numbers of successive delete and
\* context rows, and the new numbers of successive add and context rows,
\* go up by exactly one.
C18_NumberingInvariant ==
    /\ \A n \in 1..Len(rows) :
        /\ rows[n].type = "add" => rows[n].oldNum = Null /\ rows[n].newNum \in Nat
        /\ rows[n].type = "delete" => rows[n].oldNum \in Nat /\ rows[n].newNum = Null
        /\ rows[n].type = "context" => rows[n].oldNum \in Nat /\ rows[n].newNum \in Nat
    /\ \A m, n \in 1..Len(rows) :
        /\ (rows[m].oldNum # Null /\ NextOld(m, n) /\ SameHunk(m, n))
                => rows[n].oldNum = rows[m].oldNum + 1
        /\ (rows[m].newNum # Null /\ NextNew(m, n) /\ SameHunk(m, n))
                => rows[n].newNum = rows[m].newNum + 1

\* a text of a hunk header followed by an add, a delete and a context line
\* (in some order) is rendered to its end
C18_Witness ==
    /\ RenderDone
    /\ Len(rows) = 4
    /\ rows[1].type = "hunk"
    /\ { rows[n].type : n \in 2..4 } = {"add", "delete", "context"}

\* C19: in a text whose @@ lines are valid hunk headers, after every header,
\* the second and later ones included, the first row of its hunk with an old
\* number has the header's old start and the first row of its hunk with a new
\* number has its new start.
C19_EveryHeaderInitializes ==
    \A h, n \in 1..Len(rows) :
        (/\ rows[h].type = "hunk"
         /\ \A j \in 1..h : rows[j].type = "hunk" => HeaderMatches(rows[j].line)) =>
            /\ (NextOld(h, n) /\ SameHunk(h + 1, n))
                    => rows[n].oldNum = parseDiffHeader(rows[h].line).oldStart
            /\ (NextNew(h, n) /\ SameHunk(h + 1, n))
                    => rows[n].newNum = parseDiffHeader(rows[h].line).newStart

\* row n comes after a valid hunk header and is neither a header nor a file
\* line
BodyRow(n) ==
    /\ \E h \in 1..(n - 1) : rows[h].type = "hunk" /\ HeaderMatches(rows[h].line)
    /\ rows[n].type \notin {"hunk", "file"}

\* C20: a body line is classified by its leading character: - is a delete
\* row with an old number, + an add row with a new number, a space or an
\* empty line that further lines follow a context row with both numbers.
C20_BodyClassification ==
    \A n \in 1..Len(rows) :
        BodyRow(n) =>
            /\ StartsWith(rows[n].line, <<"-">>) =>
                    rows[n].type = "delete" /\ rows[n].oldNum \in Nat
            /\ StartsWith(rows[n].line, <<"+">>) =>
                    rows[n].type = "add" /\ rows[n].newNum \in Nat
            /\ (StartsWith(rows[n].line, <<" ">>) \/ (rows[n].line = <<>> /\ n < Len(lines))) =>
                    /\ rows[n].type = "context"
                    /\ rows[n].oldNum \in Nat
                    /\ rows[n].newNum \in Nat

\* C21: a line that starts with @@ and is no valid hunk header is skipped
\* without effect: the step that renders it leaves both counters as they are,
\* and the first valid header after it still sets them, so that the first row
\* of its hunk with an old (new) number has the header's old (new) start.
C21_InvalidHeaderSkipped ==
    /\ [][(AtLine("hunk") /\ ~HeaderMatches(lines[idx]))
            => UNCHANGED <<oldLineNum, newLineNum>>]_vars
    /\ [](\A h, n \in 1..Len(rows) :
            (/\ rows[h].type = "hunk"
             /\ HeaderMatches(rows[h].line)
             /\ \A j \in 1..(h - 1) : rows[j].type = "hunk" => ~HeaderMatches(rows[j].line)) =>
                /\ (NextOld(h, n) /\ SameHunk(h + 1, n))
                        => rows[n].oldNum = parseDiffHeader(rows[h].line).oldStart
                /\ (NextNew(h, n) /\ SameHunk(h + 1, n))
                        => rows[n].newNum = parseDiffHeader(rows[h].line).newStart)

----
\* the approved changes of file f, in the order of approvedChanges
RECURSIVE ChangesOf(_, _)
ChangesOf(changes, f) ==
    IF changes = <<>> THEN <<>>
    ELSE IF Head(changes).file = f
         THEN <<Head(changes)>> \o ChangesOf(Tail(changes), f)
         ELSE ChangesOf(Tail(changes), f)

\* C27: the approved changes of each file form a chain from the file's
\* original content to its current content: the first change starts from the
\* original content, each later change starts from the result of the one
\* before it, and fileContents is the result of the last one (the original
\* content when the file has no approved change).
C27_ChangeChain ==
    \A f \in Files :
        LET ch == ChangesOf(approvedChanges, f) IN
        IF ch = <<>>
        THEN fileContents[f] = reviewResults[f].original_content
        ELSE /\ ch[1].original_content = reviewResults[f].original_content
             /\ \A n \in 2..Len(ch) : ch[n].original_content = ch[n - 1].modified_content
             /\ fileContents[f] = ch[Len(ch)].modified_content

\* C28: when no approve request is in flight and no suggestion of any file is
\* displayed as active, every suggestion is counted as handled and the final
\* panel is shown.
C28_NeverStuck ==
    (Awaiting = {} /\ \A fi \in AllSuggestions : ~IsActive(fi[1], fi[2]))
        => (handledCount = totalSuggestions /\ PanelShown)

\* C29: every suggestion handed to FileReview as active is rendered with its
\* Accept and Dismiss controls, for every content the file has.
C29_ActiveHasControls ==
    \A fi \in AllSuggestions : IsActive(fi[1], fi[2]) => HasControls(fi[1], fi[2])

----
\* The step-by-step review: InteractiveReview.jsx, first component

\* number of Keep clicks followed
MaxKeeps == 3

\* a suggestion of the step-by-step review
StepSuggestion(name, line, applied) ==
    [suggestion |-> name, applied |-> applied, highlighted_lines |-> <<line>>,
     original_content |-> <<"a">>, modified_content |-> <<"A">>]

\* the results a reviewed file can have: one or two suggestions, each with
\* or without extracted changes
StepResults ==
    { << StepSuggestion("s1", 1, a) >> : a \in BOOLEAN } \cup
    { << StepSuggestion("s1", 1, a), StepSuggestion("s2", 2, b) >> : a, b \in BOOLEAN }

\* `reviewResults.review.filter(file => !file.error && file.results && file.results.length > 0)`
ValidFilesInputs ==
    { << [file |-> "f1", results |-> r] >> : r \in StepResults } \cup
    { << [file |-> "f1", results |-> r], [file |-> "f2", results |-> q] >> :
            r \in StepResults, q \in StepResults }

currentFile == validFiles[currentFileIndex + 1]

suggestions == currentFile.results

\* `suggestions[currentSuggestionIndex]` is defined
HasCurrentSuggestion ==
    /\ currentFileIndex < Len(validFiles)
    /\ currentSuggestionIndex < Len(suggestions)

currentSuggestion == suggestions[currentSuggestionIndex + 1]

totalFiles == Len(validFiles)

RECURSIVE SumResults(_)
SumResults(files) ==
    IF files = <<>> THEN 0 ELSE Len(Head(files).results) + SumResults(Tail(files))

\* `validFiles.reduce((sum, file) => sum + (file.results?.length || 0), 0)`
stepTotalSuggestions == SumResults(validFiles)

\* the step-by-step review is on the page, neither completed nor cancelled
StepOpen == validFiles # <<>> /\ completed = NotCompleted

Cancelled == [invoked |-> FALSE, cancelled |-> TRUE]

\* the action buttons are reachable: the modal is not over them
ButtonsShown == StepOpen /\ HasCurrentSuggestion /\ ~showBranchModal

moveToNext ==
    IF currentSuggestionIndex < Len(suggestions) - 1
    THEN /\ currentSuggestionIndex' = currentSuggestionIndex + 1
         /\ UNCHANGED <<currentFileIndex, showBranchModal>>
    ELSE IF currentFileIndex < totalFiles - 1
    THEN /\ currentFileIndex' = currentFileIndex + 1
         /\ currentSuggestionIndex' = 0
         /\ UNCHANGED showBranchModal
    ELSE /\ showBranchModal' = TRUE
         /\ UNCHANGED <<currentFileIndex, currentSuggestionIndex>>

\* the change object handleKeep stores
KeptChange ==
    [file |-> currentFile.file,
     original_content |-> currentSuggestion.original_content,
     modified_content |-> currentSuggestion.modified_content,
     suggestion |-> currentSuggestion.suggestion,
     line_start |-> First(currentSuggestion.highlighted_lines),
     line_end |-> Last(currentSuggestion.highlighted_lines)]

\* what the step-by-step review leaves alone
stepOthers == <<rown, pvars, fvars, vvars>>

\* the Keep button (disabled unless the suggestion has extracted changes)
handleKeep ==
    /\ ButtonsShown
    /\ currentSuggestion.applied
    /\ Len(approvedChanges) < MaxKeeps
    /\ approvedChanges' = Append(approvedChanges, KeptChange)
    /\ moveToNext
    /\ UNCHANGED <<validFiles, alertMsg, completed, stepOthers>>

\* the Discard button
handleDiscard ==
    /\ ButtonsShown
    /\ moveToNext
    /\ UNCHANGED <<validFiles, approvedChanges, alertMsg, completed, stepOthers>>

\* the branch modal is closed: `onClose={() => setShowBranchModal(false)}`
CloseBranchModal ==
    /\ StepOpen
    /\ showBranchModal
    /\ showBranchModal' = FALSE
    /\ UNCHANGED <<validFiles, currentFileIndex, currentSuggestionIndex,
                   approvedChanges, alertMsg, completed, stepOthers>>

\* the Create PR button of the branch modal
handleFinishReview ==
    /\ StepOpen
    /\ showBranchModal
    /\ IF Len(approvedChanges) = 0
       THEN completed' = Cancelled
       ELSE completed' = [invoked |-> TRUE, changes |-> approvedChanges, branchName |-> BranchName]
    /\ UNCHANGED <<svars, approvedChanges, alertMsg, stepOthers>>

\* Cancel Review, or Cancel in the branch modal
StepCancel ==
    /\ StepOpen
    /\ completed' = Cancelled
    /\ UNCHANGED <<svars, approvedChanges, alertMsg, stepOthers>>

InitStep ==
    /\ validFiles \in ValidFilesInputs
    /\ currentFileIndex = 0
    /\ currentSuggestionIndex = 0
    /\ showBranchModal = FALSE
    /\ NoReview
    /\ NoCard
    /\ NoFullscreen
    /\ NoViewer

NextStep ==
    \/ handleKeep
    \/ handleDiscard
    \/ CloseBranchModal
    \/ handleFinishReview
    \/ StepCancel

SpecStep == InitStep /\ [][NextStep]_vars

\* the suggestions of the step-by-step review, as <<file, suggestion>>
StepSuggestions ==
    UNION { { <<validFiles[f].file, validFiles[f].results[i].suggestion>> :
                i \in 1..Len(validFiles[f].results) } : f \in 1..Len(validFiles) }

\* C30: in the step-by-step review each suggestion is kept at most once:
\* approvedChanges holds at most one entry per suggestion and is never longer
\* than the number of suggestions.
C30_KeptAtMostOnce ==
    validFiles # <<>> =>
        /\ \A fs \in StepSuggestions :
                Cardinality({ n \in 1..Len(approvedChanges) :
                                /\ approvedChanges[n].file = fs[1]
                                /\ approvedChanges[n].suggestion = fs[2] }) <= 1
        /\ Len(approvedChanges) <= stepTotalSuggestions

----
\* The full-screen review: FullscreenReview of RepoList.jsx

\* number of issues of the file with the most issues
MaxIssues == 3

\* the n-th result of a reviewed file
IssueResult(n) ==
    [comment |-> n, diff |-> << <<"+", "b">> >>, highlighted_lines |-> <<n>>]

\* the reviews sessionStorage can hold: f1 with at least one result, f2 with
\* any number of results
ReviewDataInputs ==
    { << [file |-> "f1", results |-> [i \in 1..n |-> IssueResult(i)]],
         [file |-> "f2", results |-> [i \in 1..m |-> IssueResult(i)]] >> :
        n \in 1..MaxIssues, m \in 0..MaxIssues }

\* the issues of a file: its results with file and globalIndex added
IssuesOf(fileData) ==
    [i \in 1..Len(fileData.results) |->
        [comment |-> fileData.results[i].comment,
         diff |-> fileData.results[i].diff,
         highlighted_lines |-> fileData.results[i].highlighted_lines,
         file |-> fileData.file,
         globalIndex |-> <<fileData.file, i - 1>>]]

\* the elements of seq that satisfy Keep, in order
RECURSIVE SelectIssues(_, _)
SelectIssues(seq, rejected) ==
    IF seq = <<>> THEN <<>>
    ELSE IF Head(seq).globalIndex \in rejected
         THEN SelectIssues(Tail(seq), rejected)
         ELSE <<Head(seq)>> \o SelectIssues(Tail(seq), rejected)

\* the groups of seq that have an issue, in order
RECURSIVE NonEmptyGroups(_)
NonEmptyGroups(seq) ==
    IF seq = <<>> THEN <<>>
    ELSE IF Head(seq).issues = <<>>
         THEN NonEmptyGroups(Tail(seq))
         ELSE <<Head(seq)>> \o NonEmptyGroups(Tail(seq))

fileGroups ==
    NonEmptyGroups([g \in 1..Len(reviewData) |->
        [file |-> reviewData[g].file, issues |-> IssuesOf(reviewData[g])]])

visibleFileGroups ==
    NonEmptyGroups([g \in 1..Len(fileGroups) |->
        [file |-> fileGroups[g].file,
         issues |-> SelectIssues(fileGroups[g].issues, rejectedIssues)]])

\* the change object handleApproveIssue stores
IssueChange(issue) ==
    [file |-> issue.file,
     original_content |-> <<>>,
     modified_content |-> <<>>,
     suggestion |-> issue.comment,
     diff |-> issue.diff,
     line_start |-> First(issue.highlighted_lines),
     line_end |-> Last(issue.highlighted_lines)]

\* the two state values one call of handleApproveIssue sets, from the
\* approvedChanges and rejectedIssues of the render its closure belongs to
IssueApproved(closure, issue) ==
    [approvedChanges |-> Append(closure.approvedChanges, IssueChange(issue)),
     rejectedIssues |-> closure.rejectedIssues \cup {issue.globalIndex}]

\* the state of the render the handlers of the page were created in
Closure == [approvedChanges |-> approvedChanges, rejectedIssues |-> rejectedIssues]

\* the full-screen review is open
FullscreenOpen == reviewData # <<>> /\ completed = NotCompleted

\* what the full-screen review leaves alone
fullscreenOthers == <<rown, pvars, svars, vvars>>

\* the Approve button of an issue
handleApproveIssue(g, i) ==
    /\ FullscreenOpen
    /\ g \in 1..Len(visibleFileGroups)
    /\ i \in 1..Len(visibleFileGroups[g].issues)
    /\ LET set == IssueApproved(Closure, visibleFileGroups[g].issues[i]) IN
        /\ approvedChanges' = set.approvedChanges
        /\ rejectedIssues' = set.rejectedIssues
    /\ UNCHANGED <<reviewData, alertMsg, completed, fullscreenOthers>>

\* the Reject button of an issue
handleRejectIssue(g, i) ==
    /\ FullscreenOpen
    /\ g \in 1..Len(visibleFileGroups)
    /\ i \in 1..Len(visibleFileGroups[g].issues)
    /\ rejectedIssues' = rejectedIssues \cup {visibleFileGroups[g].issues[i].globalIndex}
    /\ UNCHANGED <<reviewData, approvedChanges, alertMsg, completed, fullscreenOthers>>

\* the state values set by the calls of handleApproveIssue for the issues
\* from the i-th on, each made from the closure of the render the loop
\* started in; set holds the values set so far
RECURSIVE ApproveAllLoop(_, _, _, _)
ApproveAllLoop(closure, groupIssues, i, set) ==
    IF i > Len(groupIssues) THEN set
    ELSE ApproveAllLoop(closure, groupIssues, i + 1, IssueApproved(closure, groupIssues[i]))

\* the Approve All button of a file
handleApproveAll(g) ==
    /\ FullscreenOpen
    /\ g \in 1..Len(visibleFileGroups)
    /\ LET set == ApproveAllLoop(Closure, visibleFileGroups[g].issues, 1, Closure) IN
        /\ approvedChanges' = set.approvedChanges
        /\ rejectedIssues' = set.rejectedIssues
    /\ UNCHANGED <<reviewData, alertMsg, completed, fullscreenOthers>>

\* the Reject All button of a file
handleRejectAll(g) ==
    /\ FullscreenOpen
    /\ g \in 1..Len(visibleFileGroups)
    /\ rejectedIssues' = rejectedIssues \cup
            { visibleFileGroups[g].issues[i].globalIndex : i \in 1..Len(visibleFileGroups[g].issues) }
    /\ UNCHANGED <<reviewData, approvedChanges, alertMsg, completed, fullscreenOthers>>

\* the Create PR button, shown when no file group is visible
handleFinalize ==
    /\ FullscreenOpen
    /\ visibleFileGroups = <<>>
    /\ IF Len(approvedChanges) = 0
       THEN alertMsg' = AlertNoChanges /\ completed' = completed
       ELSE /\ completed' = [invoked |-> TRUE, changes |-> approvedChanges, branchName |-> BranchName]
            /\ alertMsg' = alertMsg
    /\ UNCHANGED <<reviewData, rejectedIssues, approvedChanges, fullscreenOthers>>

\* the Cancel button, shown when no file group is visible
handleCancel ==
    /\ FullscreenOpen
    /\ visibleFileGroups = <<>>
    /\ completed' = Cancelled
    /\ UNCHANGED <<reviewData, rejectedIssues, approvedChanges, alertMsg, fullscreenOthers>>

InitFullscreen ==
    /\ reviewData \in ReviewDataInputs
    /\ rejectedIssues = {}
    /\ NoReview
    /\ NoCard
    /\ NoStepReview
    /\ NoViewer

NextFullscreen ==
    \/ \E g \in 1..2 : handleApproveAll(g)
    \/ \E g \in 1..2 : handleRejectAll(g)
    \/ \E g \in 1..2, i \in 1..MaxIssues : handleApproveIssue(g, i)
    \/ \E g \in 1..2, i \in 1..MaxIssues : handleRejectIssue(g, i)
    \/ handleFinalize
    \/ handleCancel

SpecFullscreen == InitFullscreen /\ [][NextFullscreen]_vars

\* the changes of the issues of a group, in issue order
ChangesOfIssues(groupIssues) ==
    [i \in 1..Len(groupIssues) |-> IssueChange(groupIssues[i])]

\* C26: Approve All on a file group with n visible issues adds one entry for
\* each of the n issues to approvedChanges, in issue order, and puts all n
\* issues in the handled set, so that none of them is displayed any more.
C26_ApproveAllApprovesAll ==
    [][\A g \in 1..2 :
        handleApproveAll(g) =>
            LET groupIssues == visibleFileGroups[g].issues IN
            /\ approvedChanges' = approvedChanges \o ChangesOfIssues(groupIssues)
            /\ \A i \in 1..Len(groupIssues) : groupIssues[i].globalIndex \in rejectedIssues'
      ]_vars

----
\* The diff parser, reconstructor and line grouper of utils/diffParser, as
\* the viewer's import and the specification of the engine describe them.
\* A diff text is held split at its line breaks.

\* a parsed line
DiffLine(type, content, oldNum, newNum) ==
    [type |-> type, content |-> content, oldLineNum |-> oldNum, newLineNum |-> newNum]

\* the name with a single leading path prefix (up to the first /) removed
StripPrefix(name) ==
    IF \E k \in 1..Len(name) : name[k] = "/"
    THEN LET k == CHOOSE j \in 1..Len(name) :
                    name[j] = "/" /\ \A h \in 1..(j - 1) : name[h] # "/"
         IN SubSeq(name, k + 1, Len(name))
    ELSE name

\* the parser before the first line
ParseStart ==
    [lines |-> <<>>, oldFileName |-> <<>>, newFileName |-> <<>>,
     oldStart |-> 1, newStart |-> 1,
     inHunk |-> FALSE, oldLineNum |-> 0, newLineNum |-> 0]

\* the parser after one more line
ParseLine(st, line) ==
    IF StartsWith(line, <<"-", "-", "-", " ">>)
    THEN [st EXCEPT !.oldFileName = StripPrefix(SubSeq(line, 5, Len(line)))]
    ELSE IF StartsWith(line, <<"+", "+", "+", " ">>)
    THEN [st EXCEPT !.newFileName = StripPrefix(SubSeq(line, 5, Len(line)))]
    ELSE IF StartsWith(line, <<"@", "@">>)
    THEN IF HeaderMatchAt(line, 1).matched
         THEN LET m == HeaderMatchAt(line, 1) IN
              [st EXCEPT !.lines = Append(st.lines, DiffLine("hunk", line, Null, Null)),
                         !.oldStart = IF st.inHunk THEN st.oldStart ELSE m.oldStart,
                         !.newStart = IF st.inHunk THEN st.newStart ELSE m.newStart,
                         !.inHunk = TRUE,
                         !.oldLineNum = m.oldStart,
                         !.newLineNum = m.newStart]
         ELSE st
    ELSE IF ~st.inHunk THEN st
    ELSE IF StartsWith(line, <<"-">>)
    THEN [st EXCEPT !.lines = Append(st.lines,
                        DiffLine("delete", SubSeq(line, 2, Len(line)), st.oldLineNum, Null)),
                    !.oldLineNum = st.oldLineNum + 1]
    ELSE IF StartsWith(line, <<"+">>)
    THEN [st EXCEPT !.lines = Append(st.lines,
                        DiffLine("add", SubSeq(line, 2, Len(line)), Null, st.newLineNum)),
                    !.newLineNum = st.newLineNum + 1]
    ELSE IF StartsWith(line, <<" ">>) \/ line = <<>>
    THEN [st EXCEPT !.lines = Append(st.lines,
                        DiffLine("context", SubSeq(line, 2, Len(line)),
                                 st.oldLineNum, st.newLineNum)),
                    !.oldLineNum = st.oldLineNum + 1,
                    !.newLineNum = st.newLineNum + 1]
    ELSE st

RECURSIVE ParseFrom(_, _)
ParseFrom(st, text) ==
    IF text = <<>> THEN st ELSE ParseFrom(ParseLine(st, Head(text)), Tail(text))

\* parse(diffText) -> ParsedDiff
parseDiff(text) ==
    LET st == ParseFrom(ParseStart, text) IN
    [lines |-> st.lines, oldFileName |-> st.oldFileName, newFileName |-> st.newFileName,
     oldStart |-> st.oldStart, newStart |-> st.newStart]

\* the text line of a parsed line
ReconstructLine(dl) ==
    IF dl.type = "hunk" THEN dl.content
    ELSE IF dl.type = "add" THEN <<"+">> \o dl.content
    ELSE IF dl.type = "delete" THEN <<"-">> \o dl.content
    ELSE <<" ">> \o dl.content

\* a reconstructor that writes a context line without its leading space
reconstruct_BareContext(oldFileName, newFileName, dls) ==
    (IF oldFileName # <<>> THEN << <<"-", "-", "-", " ", "a", "/">> \o oldFileName >> ELSE <<>>)
    \o (IF newFileName # <<>> THEN << <<"+", "+", "+", " ", "b", "/">> \o newFileName >> ELSE <<>>)
    \o [n \in 1..Len(dls) |->
            IF dls[n].type = "context" THEN dls[n].content ELSE ReconstructLine(dls[n])]

\* reconstruct(oldFileName, newFileName, lines) -> text
reconstruct(oldFileName, newFileName, dls) ==
    (IF oldFileName # <<>> THEN << <<"-", "-", "-", " ", "a", "/">> \o oldFileName >> ELSE <<>>)
    \o (IF newFileName # <<>> THEN << <<"+", "+", "+", " ", "b", "/">> \o newFileName >> ELSE <<>>)
    \o [n \in 1..Len(dls) |-> ReconstructLine(dls[n])]

\* the accumulated run of context lines, emitted
FlushRun(run, threshold) ==
    IF Len(run) >= threshold
    THEN << [type |-> "collapsed", count |-> Len(run), lines |-> run] >>
    ELSE run

\* a walk that does not empty the run after emitting it
RECURSIVE GroupWalk_RunKept(_, _, _, _)
GroupWalk_RunKept(rest, run, out, threshold) ==
    IF rest = <<>> THEN out \o FlushRun(run, threshold)
    ELSE IF Head(rest).type = "context"
         THEN GroupWalk_RunKept(Tail(rest), Append(run, Head(rest)), out, threshold)
         ELSE GroupWalk_RunKept(Tail(rest), run,
                        (out \o FlushRun(run, threshold)) \o <<Head(rest)>>, threshold)

\* the walk over the lines: rest is still to walk, run is the accumulated
\* run, out what is emitted
RECURSIVE GroupWalk(_, _, _, _)
GroupWalk(rest, run, out, threshold) ==
    IF rest = <<>> THEN out \o FlushRun(run, threshold)
    ELSE IF Head(rest).type = "context"
         THEN GroupWalk(Tail(rest), Append(run, Head(rest)), out, threshold)
         ELSE GroupWalk(Tail(rest), <<>>,
                        (out \o FlushRun(run, threshold)) \o <<Head(rest)>>, threshold)

\* group(lines, threshold)
groupUnchangedLines(dls, threshold) == GroupWalk(dls, <<>>, <<>>, threshold)

\* the grouped sequence with every group replaced by its lines
RECURSIVE Flatten(_)
Flatten(grouped) ==
    IF grouped = <<>> THEN <<>>
    ELSE IF Head(grouped).type = "collapsed"
         THEN Head(grouped).lines \o Flatten(Tail(grouped))
         ELSE <<Head(grouped)>> \o Flatten(Tail(grouped))

----
\* The file diff viewer: FileDiffViewer of RepoList.jsx

\* number of lines of the longest diff text of an issue, over all line kinds
MaxViewerLines == 3

\* number of lines after the hunk header of the longest diff text made of
\* context and add lines
MaxRunLines == 6

\* `groupUnchangedLines(parsedDiff.lines, 5)`
GroupThreshold == 5

\* a diff value that is no string, told apart from every text by a line that
\* no text has
NotText == << << "object" >> >>

PathFileLine == <<"-", "-", "-", " ", "a", "/", "f">>
PlusContextLine == <<" ", "+", "b">>

ViewerLineKinds == DiffLineKinds \cup {PathFileLine, PlusContextLine}

\* an issue of the file with its diff
Issue(n, diff) == [comment |-> n, diff |-> diff, highlighted_lines |-> <<n>>]

\* the issues prop: one issue with any short text, or no string, as its diff;
\* one issue with a hunk of context and add lines; two issues with or
\* without a diff
IssuesInputs ==
    { << Issue(1, d) >> :
        d \in UNION { [1..n -> ViewerLineKinds] : n \in 1..MaxViewerLines } \cup {NotText} }
    \cup
    { << Issue(1, <<Hunk1Line>> \o d) >> :
        d \in UNION { [1..n -> {ContextLine, AddLine}] : n \in 1..MaxRunLines } }
    \cup
    { << Issue(1, d), Issue(2, e) >> :
        d, e \in {EmptyText, <<AddLine>>, <<Hunk1Line, AddLine>>} }

\* the diffs of the issues that are not empty, one after the other
RECURSIVE JoinDiffs(_)
JoinDiffs(iss) ==
    IF iss = <<>> THEN <<>>
    ELSE IF Head(iss).diff = EmptyText
         THEN JoinDiffs(Tail(iss))
         ELSE Head(iss).diff \o JoinDiffs(Tail(iss))

mergedDiff ==
    IF Len(issues) = 0 THEN EmptyText
    ELSE IF Len(issues) = 1 THEN issues[1].diff
    ELSE IF JoinDiffs(issues) = <<>> THEN EmptyText ELSE JoinDiffs(issues)

\* what the viewer leaves alone
viewerOthers == <<rvars, pvars, svars, fvars>>

\* the parsedDiff memo, parseDiff returned
ParseMerged ==
    /\ issues # <<>>
    /\ parsedDiff = NotComputed
    /\ mergedDiff # NotText
    /\ parsedDiff' = parseDiff(mergedDiff)
    /\ UNCHANGED <<issues, processedLines, expandedCollapsed, viewerOthers>>

\* the parsedDiff memo, parseDiff threw: the catch block
ParseThrew ==
    /\ issues # <<>>
    /\ parsedDiff = NotComputed
    /\ mergedDiff = NotText
    /\ parsedDiff' = [lines |-> <<>>, oldStart |-> 1, newStart |-> 1]
    /\ UNCHANGED <<issues, processedLines, expandedCollapsed, viewerOthers>>

\* the processedLines memo
GroupParsed ==
    /\ parsedDiff # NotComputed
    /\ processedLines = NotComputed
    /\ processedLines' = [computed |-> TRUE,
                          value |-> groupUnchangedLines(parsedDiff.lines, GroupThreshold)]
    /\ UNCHANGED <<issues, parsedDiff, expandedCollapsed, viewerOthers>>

\* the viewer has rendered
ViewerRendered == processedLines # NotComputed

\* a click on the bar of the collapsed section at index i of processedLines
toggleCollapsed(i) ==
    /\ ViewerRendered
    /\ i \in 1..Len(processedLines.value)
    /\ processedLines.value[i].type = "collapsed"
    /\ expandedCollapsed' = IF i \in expandedCollapsed
                            THEN expandedCollapsed \ {i}
                            ELSE expandedCollapsed \cup {i}
    /\ UNCHANGED <<issues, parsedDiff, processedLines, viewerOthers>>

\* `processedLines.length === 0`
ShowsFallback == ViewerRendered /\ Len(processedLines.value) = 0

\* fallback cards that stop after the first issue
FallbackCards_FirstOnly ==
    IF ShowsFallback
    THEN [i \in 1..1 |-> [issue |-> issues[i].comment, approve |-> i, reject |-> i]]
    ELSE <<>>

\* the cards of the fallback view: for each issue its Approve and Reject
\* buttons, which call onApproveIssue(idx) and onRejectIssue(idx)
FallbackCards ==
    IF ShowsFallback
    THEN [i \in 1..Len(issues) |-> [issue |-> issues[i].comment, approve |-> i, reject |-> i]]
    ELSE <<>>

\* an expanded section that shows its first line only
SectionRows_FirstOnly(entry, expanded) ==
    IF entry.type = "collapsed"
    THEN IF expanded THEN SubSeq(entry.lines, 1, 1) ELSE <<>>
    ELSE <<entry>>

\* the diff lines shown for an entry of processedLines: for a collapsed
\* section its lines when it is expanded and none otherwise
SectionRows(entry, expanded) ==
    IF entry.type = "collapsed"
    THEN IF expanded THEN entry.lines ELSE <<>>
    ELSE <<entry>>

\* the diff lines shown for the entries from index i on
RECURSIVE RowsFrom(_)
RowsFrom(i) ==
    IF i > Len(processedLines.value) THEN <<>>
    ELSE SectionRows(processedLines.value[i], i \in expandedCollapsed) \o RowsFrom(i + 1)

\* the diff lines the split view shows
ShownRows == IF ViewerRendered /\ ~ShowsFallback THEN RowsFrom(1) ELSE <<>>

InitViewer ==
    /\ issues \in IssuesInputs
    /\ parsedDiff = NotComputed
    /\ processedLines = NotComputed
    /\ expandedCollapsed = {}
    /\ NoReview
    /\ NoCard
    /\ NoStepReview
    /\ NoFullscreen

NextViewer ==
    \/ ParseMerged
    \/ ParseThrew
    \/ GroupParsed
    \/ \E i \in 1..(MaxRunLines + 1) : toggleCollapsed(i)

SpecViewer == InitViewer /\ [][NextViewer]_vars

\* the text has a line that is a hunk header
HasHunkHeader(text) ==
    \E n \in 1..Len(text) : StartsWith(text[n], <<"@", "@">>) /\ HeaderMatchAt(text[n], 1).matched

\* the merged diff of the issues has no hunk header: it is no string, or a
\* text (the empty text included) without one
NoHunkHeader == mergedDiff = NotText \/ ~HasHunkHeader(mergedDiff)

\* C22: a diff text without any hunk header (the empty text and a parse that
\* throws included) yields an empty line sequence, and the viewer then shows
\* one card per issue of the file, each with its own Approve and Reject
\* control
C22_NoHeaderFallsBack ==
    /\ (parsedDiff # NotComputed /\ NoHunkHeader) => parsedDiff.lines = <<>>
    /\ (ViewerRendered /\ NoHunkHeader) =>
            /\ processedLines.value = <<>>
            /\ ShowsFallback
            /\ Len(FallbackCards) = Len(issues)
            /\ \A i \in 1..Len(issues) :
                    /\ FallbackCards[i].issue = issues[i].comment
                    /\ FallbackCards[i].approve = i
                    /\ FallbackCards[i].reject = i

\* two issues whose diffs have no hunk header, rendered as two cards
C22_Witness ==
    /\ ViewerRendered
    /\ Len(issues) = 2
    /\ mergedDiff # EmptyText
    /\ NoHunkHeader
    /\ Len(FallbackCards) = 2

\* C23: parsing the text that reconstruct produces from a parsed diff gives a
\* line sequence equal to the parsed one, with the same kinds, contents and
\* old and new line numbers
C23_RoundTrip ==
    (parsedDiff # NotComputed /\ mergedDiff # NotText) =>
        parseDiff(reconstruct(parsedDiff.oldFileName, parsedDiff.newFileName,
                              parsedDiff.lines)).lines = parsedDiff.lines

\* a parsed diff with a hunk line, a deleted line and a context line
C23_Witness ==
    /\ parsedDiff # NotComputed
    /\ mergedDiff # NotText
    /\ Len(parsedDiff.lines) = 3
    /\ parsedDiff.lines[1].type = "hunk"
    /\ \E i, j \in 2..3 : /\ parsedDiff.lines[i].type = "delete"
                          /\ parsedDiff.lines[j].type = "context"

\* the thresholds grouping is checked with
Thresholds == 1..(MaxRunLines + 1)

IsContextRun(ls) == \A n \in 1..Len(ls) : ls[n].type = "context"

\* out is the grouping of dls with threshold t: its collapsed groups are the
\* maximal runs of at least t context lines, with the run length as count
\* and the run as lines, no run of t context lines is left uncollapsed, and
\* with every group replaced by its lines it is dls
IsGroupingOf(out, dls, t) ==
    /\ Flatten(out) = dls
    /\ \A i \in 1..Len(out) :
          out[i].type = "collapsed" =>
            /\ out[i].count = Len(out[i].lines)
            /\ out[i].count >= t
            /\ IsContextRun(out[i].lines)
            /\ i > 1 => out[i - 1].type \notin {"context", "collapsed"}
            /\ i < Len(out) => out[i + 1].type \notin {"context", "collapsed"}
    /\ \A i \in 1..Len(out) :
          (i + t - 1 <= Len(out)) => \E j \in i..(i + t - 1) : out[j].type # "context"

\* every collapsed section of the view is expanded
AllExpanded ==
    \A i \in 1..Len(processedLines.value) :
        processedLines.value[i].type = "collapsed" => i \in expandedCollapsed

\* C24: grouping with threshold t replaces each maximal run of at least t
\* consecutive context lines by one collapsed group whose count is the run
\* length and whose lines are the run, and emits every other line unchanged;
\* expanding the groups gives back the input line sequence in the same order
C24_GroupingCollapsesRuns ==
    /\ parsedDiff # NotComputed =>
          \A t \in Thresholds :
              IsGroupingOf(groupUnchangedLines(parsedDiff.lines, t), parsedDiff.lines, t)
    /\ ViewerRendered =>
          /\ IsGroupingOf(processedLines.value, parsedDiff.lines, GroupThreshold)
          /\ AllExpanded => ShownRows = parsedDiff.lines

\* a view with an expanded collapsed section and an added line
C24_Witness ==
    /\ ViewerRendered
    /\ AllExpanded
    /\ \E i \in 1..Len(processedLines.value) :
          /\ processedLines.value[i].type = "collapsed"
          /\ i \in expandedCollapsed
    /\ \E i \in 1..Len(processedLines.value) : processedLines.value[i].type = "add"

\* C25: grouping is idempotent: for every line sequence and threshold,
\* flattening the grouped output and grouping it again gives the grouped
\* output of the original sequence
C25_GroupingIdempotent ==
    parsedDiff # NotComputed =>
        \A t \in Thresholds :
            groupUnchangedLines(Flatten(groupUnchangedLines(parsedDiff.lines, t)), t)
                = groupUnchangedLines(parsedDiff.lines, t)

\* a grouped sequence with a collapsed group between other lines
C25_Witness ==
    /\ ViewerRendered
    /\ expandedCollapsed = {}
    /\ \E i \in 2..(Len(processedLines.value) - 1) :
          /\ processedLines.value[i].type = "collapsed"
          /\ processedLines.value[i].count = GroupThreshold
          /\ processedLines.value[i + 1].type = "add"

====
